---- MODULE Spec2Model ----
(***************************************************************************)
(* copy-recursive (index.js): copy(cfg, done), copyItem and                *)
(* getUniqueFileName over a filesystem.                                    *)
(*                                                                         *)
(* A file name is a sequence of one-character strings, a path is a         *)
(* sequence of file names (its components below the working directory),   *)
(* and the filesystem maps every existing path to its entry.               *)
(***************************************************************************)
EXTENDS Integers, Sequences, FiniteSets, TLC

VARIABLES
  fs,        \* the filesystem: every existing path and its entry
  pc,        \* where copy() is: "idle", "run" or "done"
  cfg,       \* the tasks copy() has still to start
  task,      \* the task being processed
  srcs,      \* the sources of the task still to be copied
  stack,     \* the copyItem calls in progress, the innermost last
  log,       \* the lines written to the console, in order
  doneCalls, \* how many times the done callback was called
  cfg0,      \* the task list copy() was called with
  fs0,       \* the filesystem when copy() was called
  calls,     \* the copyItem calls made by copy(), in order
  fsCall     \* the filesystem when the latest of them was made

vars == <<fs, pc, cfg, task, srcs, stack, log, doneCalls, cfg0, fs0, calls, fsCall>>

(***************************************************************************)
(* Bounds of the model                                                     *)
(***************************************************************************)
\* longest task list handed to copy()
MaxTasks == 2
\* largest value of the depth and height options
MaxLimit == 1
\* longest path, in components, the operating system takes (its PATH_MAX)
PathMax == 6

(***************************************************************************)
(* node:path                                                               *)
(***************************************************************************)
\* path.join(dir, name) for a single name
Join(dir, name) == Append(dir, name)

\* path.dirname
Dirname(p) == SubSeq(p, 1, Len(p) - 1)

\* path.basename
Basename(p) == p[Len(p)]

\* path.relative(path.dirname(source), source)
RelativeToParent(p) == SubSeq(p, Len(p), Len(p))

\* index of the last "." of a name that is not its first character, else 0
ExtStart(base) ==
  LET dots == {i \in 2..Len(base) : base[i] = "."}
  IN  IF dots = {} THEN 0 ELSE CHOOSE i \in dots : \A j \in dots : j <= i

\* path.parse(p).ext
ParseExt(p) ==
  LET base == Basename(p)
  IN  IF ExtStart(base) = 0 THEN <<>> ELSE SubSeq(base, ExtStart(base), Len(base))

\* path.parse(p).name
ParseName(p) ==
  LET base == Basename(p)
  IN  IF ExtStart(base) = 0 THEN base ELSE SubSeq(base, 1, ExtStart(base) - 1)

\* one decimal digit as a character
DigitChar(d) == <<"0", "1", "2", "3", "4", "5", "6", "7", "8", "9">>[d + 1]

\* `${counter}`: the decimal digits of a number
RECURSIVE Digits(_)
Digits(n) == IF n < 10 THEN <<DigitChar(n)>>
             ELSE Append(Digits(n \div 10), DigitChar(n % 10))

\* path.join(dir, `${name}_${counter}${ext}`)
SuffixedPath(filePath, counter) ==
  Join(Dirname(filePath),
       ParseName(filePath) \o <<"_">> \o Digits(counter) \o ParseExt(filePath))

(***************************************************************************)
(* node:fs/promises                                                        *)
(***************************************************************************)
File(c) == [kind |-> "file", content |-> c]
Dir == [kind |-> "dir", content |-> 0]

\* the proper ancestors of p below the working directory
Ancestors(p) == {SubSeq(p, 1, i) : i \in 1..(Len(p) - 1)}

\* fs.stat: the kind of the entry, or the error code
Stat(f, p) ==
  IF p = <<>> THEN "dir"
  ELSE IF Len(p) > PathMax THEN "ENAMETOOLONG"
  ELSE IF \E a \in Ancestors(p) : a \in DOMAIN f /\ f[a].kind = "file" THEN "ENOTDIR"
  ELSE IF p \in DOMAIN f THEN f[p].kind
  ELSE "ENOENT"

\* the error codes of fs.stat other than ENOENT
OtherErrors == {"ENOTDIR", "ENAMETOOLONG"}

\* fs.access succeeds
Access(f, p) == Stat(f, p) \in {"file", "dir"}

\* the names fs.readdir lists, as a set
Entries(f, p) == {q[Len(q)] : q \in {r \in DOMAIN f : Len(r) = Len(p) + 1 /\ Dirname(r) = p}}

\* the orders in which fs.readdir may list a set of names: the order is the
\* filesystem's, so every order is possible
Listings(names) ==
  {l \in [1..Cardinality(names) -> names] : \A i, j \in DOMAIN l : i # j => l[i] # l[j]}

\* fs.mkdir(p, {recursive: true}) where no ancestor is a file
Mkdir(f, p) ==
  LET new == {SubSeq(p, 1, i) : i \in 1..Len(p)} \ DOMAIN f
  IN  [q \in DOMAIN f \cup new |-> IF q \in DOMAIN f THEN f[q] ELSE Dir]

\* mutant: the source is moved, not copied
CopyFile_Moves(f, source, dest) ==
  [q \in (DOMAIN f \cup {dest}) \ ({source} \ {dest}) |->
     IF q = dest THEN File(f[source].content) ELSE f[q]]

\* fs.copyFile(source, dest): dest is created or replaced
CopyFile(f, source, dest) ==
  [q \in DOMAIN f \cup {dest} |-> IF q = dest THEN File(f[source].content) ELSE f[q]]

(***************************************************************************)
(* getUniqueFileName                                                       *)
(***************************************************************************)
\* mutant: the next name is made from the name tried last, not from filePath
RECURSIVE UniqueFrom_Chained(_, _, _, _)
UniqueFrom_Chained(f, filePath, uniquePath, counter) ==
  IF Access(f, uniquePath)
  THEN UniqueFrom_Chained(f, filePath, SuffixedPath(uniquePath, counter), counter + 1)
  ELSE uniquePath

\* the while loop, entered with uniquePath and counter
RECURSIVE UniqueFrom(_, _, _, _)
UniqueFrom(f, filePath, uniquePath, counter) ==
  IF Access(f, uniquePath)
  THEN UniqueFrom(f, filePath, SuffixedPath(filePath, counter), counter + 1)
  ELSE uniquePath

\* mutant: the counter starts at 0
GetUniqueFileName_FromZero(f, filePath) == UniqueFrom(f, filePath, filePath, 0)

GetUniqueFileName(f, filePath) == UniqueFrom(f, filePath, filePath, 1)

(***************************************************************************)
(* copyItem: its decisions                                                 *)
(***************************************************************************)
\* mutant: the bounds compared with > in place of >=
DepthStop_OffByOne(depth, height, currentDepth) ==
  \/ depth > 0 /\ currentDepth > depth
  \/ height > 0 /\ currentDepth > height

\* mutant: only maxDepth is tested
DepthStop_IgnoresHeight(depth, height, currentDepth) ==
  depth > 0 /\ currentDepth >= depth

\* the two early returns on depth and height
DepthStop(depth, height, currentDepth) ==
  \/ depth > 0 /\ currentDepth >= depth
  \/ height > 0 /\ currentDepth >= height

\* the directory is created at the destination only when not flattening
CreatesDirectory(flatten) == ~flatten

\* destPath of an item of a directory
ItemDestPath(destination, item, flatten) ==
  IF flatten THEN Join(destination, Basename(<<item>>)) ELSE Join(destination, item)

\* mutant: the base name is joined whether flattening or not
FileDestPath_AlwaysJoins(source, destination, flatten) ==
  Join(destination, Basename(source))

\* destPath of a file
FileDestPath(source, destination, flatten) ==
  IF flatten THEN Join(destination, Basename(source)) ELSE destination

\* mutant: case 'skip' without its break, falling through to case 'rename'
ResolveConflict_SkipFallsThrough(f, source, destPath, conflictResolution) ==
  CASE conflictResolution = "overwrite" -> CopyFile(f, source, destPath)
    [] conflictResolution = "skip" -> CopyFile(f, source, GetUniqueFileName(f, destPath))
    [] conflictResolution = "rename" -> CopyFile(f, source, GetUniqueFileName(f, destPath))
    [] OTHER -> f

\* mutant: case 'overwrite' without its copyFile
ResolveConflict_OverwriteKeeps(f, source, destPath, conflictResolution) ==
  CASE conflictResolution = "overwrite" -> f
    [] conflictResolution = "skip" -> f
    [] conflictResolution = "rename" -> CopyFile(f, source, GetUniqueFileName(f, destPath))
    [] OTHER -> f

\* mutant: case 'rename' writes to destPath
ResolveConflict_RenameReplaces(f, source, destPath, conflictResolution) ==
  CASE conflictResolution = "overwrite" -> CopyFile(f, source, destPath)
    [] conflictResolution = "skip" -> f
    [] conflictResolution = "rename" -> CopyFile(f, source, destPath)
    [] OTHER -> f

\* what the switch on conflictResolution does to an existing destination file
ResolveConflict(f, source, destPath, conflictResolution) ==
  CASE conflictResolution = "overwrite" -> CopyFile(f, source, destPath)
    [] conflictResolution = "skip" -> f
    [] conflictResolution = "rename" -> CopyFile(f, source, GetUniqueFileName(f, destPath))
    [] OTHER -> f

\* mutant: without the mkdir of the parent, copyFile fails where it is missing
CopyNew_NoMkdir(f, source, destPath) ==
  IF Stat(f, Dirname(destPath)) = "dir" THEN CopyFile(f, source, destPath) ELSE f

\* the copy to a destination that does not exist
CopyNew(f, source, destPath) == CopyFile(Mkdir(f, Dirname(destPath)), source, destPath)

\* mutant: the whole source path is joined to dest
RootDestination_JoinsSource(t, source) ==
  IF t.flatten THEN t.dest ELSE t.dest \o source

\* copy(): the destination handed to copyItem for one source of a task
RootDestination(t, source) ==
  IF t.flatten THEN t.dest
  ELSE IF t.isArray THEN t.dest \o RelativeToParent(source)
  ELSE Join(t.dest, Basename(source))

(***************************************************************************)
(* State                                                                   *)
(***************************************************************************)
NoTask == [none |-> TRUE]

Frame(source, destination, currentDepth) ==
  [source |-> source, destination |-> destination, currentDepth |-> currentDepth,
   at |-> "entry", items |-> <<>>]

Top == stack[Len(stack)]
Pop == SubSeq(stack, 1, Len(stack) - 1)

AtEntry == pc = "run" /\ stack # <<>> /\ Top.at = "entry"
AtLoop == pc = "run" /\ stack # <<>> /\ Top.at = "loop"

\* the copyItem call of copy() in progress, or the latest
Root == calls[Len(calls)]

\* one line of console output: the operation, the source and destination path of
\* the copyItem call that wrote it, the path written, and the source copy() named
Line(op, target, dest) ==
  [op |-> op, source |-> Top.source, target |-> target, dest |-> dest, root |-> Root.source]

\* mutant: without the try/catch of copyItem the error ends copy()
Fail_Abort(why) ==
  /\ log' = Append(log, Line(why, Top.destination, Top.destination))
  /\ stack' = <<>>
  /\ srcs' = <<>>
  /\ cfg' = <<>>
  /\ UNCHANGED <<fs, pc, task, doneCalls, cfg0, fs0, calls, fsCall>>

\* console.error(`Error copying ${source}:`, ...) and the return of copyItem
Fail(why) ==
  /\ log' = Append(log, Line(why, Top.destination, Top.destination))
  /\ stack' = Pop
  /\ UNCHANGED <<fs, pc, cfg, task, srcs, doneCalls, cfg0, fs0, calls, fsCall>>

\* copyItem returns without output
Return ==
  /\ stack' = Pop
  /\ UNCHANGED <<fs, pc, cfg, task, srcs, log, doneCalls, cfg0, fs0, calls, fsCall>>

\* a file has been handled: the filesystem after it, and the line logged
FileDone(newFs, op, dest) ==
  /\ fs' = newFs
  /\ log' = Append(log, Line(op, FileDestPath(Top.source, Top.destination, task.flatten), dest))
  /\ stack' = Pop
  /\ UNCHANGED <<pc, cfg, task, srcs, doneCalls, cfg0, fs0, calls, fsCall>>

SourceIsDir == AtEntry /\ Stat(fs, Top.source) = "dir"
SourceIsFile == AtEntry /\ Stat(fs, Top.source) = "file"
Stopped == DepthStop(task.depth, task.height, Top.currentDepth)
TopDestPath == FileDestPath(Top.source, Top.destination, task.flatten)

(***************************************************************************)
(* copy(cfg, done)                                                         *)
(***************************************************************************)
\* copy() is called with a task list
Copy(c) ==
  /\ pc = "idle"
  /\ pc' = "run"
  /\ cfg' = c
  /\ cfg0' = c
  /\ fs0' = fs
  /\ UNCHANGED <<fs, task, srcs, stack, log, doneCalls, calls, fsCall>>

\* for (const item of cfg): the next task and its sources
NextTask ==
  /\ pc = "run" /\ stack = <<>> /\ srcs = <<>> /\ cfg # <<>>
  /\ task' = Head(cfg)
  /\ srcs' = Head(cfg).src
  /\ cfg' = Tail(cfg)
  /\ UNCHANGED <<fs, pc, stack, log, doneCalls, cfg0, fs0, calls, fsCall>>

\* await copyItem(source, destination, ...) for the next source of the task
CallCopyItem ==
  /\ pc = "run" /\ stack = <<>> /\ srcs # <<>>
  /\ stack' = <<Frame(Head(srcs), RootDestination(task, Head(srcs)), 0)>>
  /\ srcs' = Tail(srcs)
  /\ calls' = Append(calls, [source |-> Head(srcs),
                              destination |-> RootDestination(task, Head(srcs))])
  /\ fsCall' = fs
  /\ UNCHANGED <<fs, pc, cfg, task, log, doneCalls, cfg0, fs0>>

\* mutant: done() is called without awaiting the last copyItem
Done_NotAwaited ==
  /\ pc = "run" /\ task # NoTask /\ srcs = <<>> /\ cfg = <<>>
  /\ pc' = "done"
  /\ \E done \in BOOLEAN : doneCalls' = IF done THEN doneCalls + 1 ELSE doneCalls
  /\ UNCHANGED <<fs, cfg, task, srcs, stack, log, cfg0, fs0, calls, fsCall>>

\* if (done) done()
Done ==
  /\ pc = "run" /\ stack = <<>> /\ srcs = <<>> /\ cfg = <<>>
  /\ pc' = "done"
  /\ \E done \in BOOLEAN : doneCalls' = IF done THEN doneCalls + 1 ELSE doneCalls
  /\ UNCHANGED <<fs, cfg, task, srcs, stack, log, cfg0, fs0, calls, fsCall>>

(***************************************************************************)
(* copyItem                                                                *)
(***************************************************************************)
\* fs.stat(source) throws
StatSourceFails ==
  /\ AtEntry
  /\ Stat(fs, Top.source) \in {"ENOENT"} \cup OtherErrors
  /\ Fail(Stat(fs, Top.source))

\* a directory at or beyond the depth or the height
DepthReturn ==
  /\ SourceIsDir /\ Stopped
  /\ Return

\* mutant: the empty directory is created at the destination before the return
EmptyFlattenReturn_Mkdir ==
  /\ SourceIsDir /\ ~Stopped
  /\ Entries(fs, Top.source) = {} /\ task.flatten
  /\ Stat(fs, Top.destination) = "ENOENT"
  /\ fs' = Mkdir(fs, Top.destination)
  /\ stack' = Pop
  /\ UNCHANGED <<pc, cfg, task, srcs, log, doneCalls, cfg0, fs0, calls, fsCall>>

\* an empty directory when flattening
EmptyFlattenReturn ==
  /\ SourceIsDir /\ ~Stopped
  /\ Entries(fs, Top.source) = {} /\ task.flatten
  /\ Return

\* mutant: without the isFile() test the directory is entered
DirDestIsFile_Unchecked ==
  /\ SourceIsDir /\ ~Stopped
  /\ CreatesDirectory(task.flatten)
  /\ Stat(fs, Top.destination) = "file"
  /\ \E items \in Listings(Entries(fs, Top.source)) :
       stack' = Append(Pop, [Top EXCEPT !.at = "loop", !.items = items])
  /\ UNCHANGED <<fs, pc, cfg, task, srcs, log, doneCalls, cfg0, fs0, calls, fsCall>>

\* the destination of a directory is a file
DirDestIsFile ==
  /\ SourceIsDir /\ ~Stopped
  /\ CreatesDirectory(task.flatten)
  /\ Stat(fs, Top.destination) = "file"
  /\ Fail("EXISTS_FILE")

\* fs.stat(destination) throws something other than ENOENT
DirDestStatFails ==
  /\ SourceIsDir /\ ~Stopped
  /\ CreatesDirectory(task.flatten)
  /\ Stat(fs, Top.destination) \in OtherErrors
  /\ Fail(Stat(fs, Top.destination))

\* the directory is listed and, when not flattening, created if missing
EnterDir ==
  /\ SourceIsDir /\ ~Stopped
  /\ ~(Entries(fs, Top.source) = {} /\ task.flatten)
  /\ CreatesDirectory(task.flatten) => Stat(fs, Top.destination) \in {"dir", "ENOENT"}
  /\ \E items \in Listings(Entries(fs, Top.source)) :
       stack' = Append(Pop, [Top EXCEPT !.at = "loop", !.items = items])
  /\ fs' = IF CreatesDirectory(task.flatten) /\ Stat(fs, Top.destination) = "ENOENT"
           THEN Mkdir(fs, Top.destination) ELSE fs
  /\ UNCHANGED <<pc, cfg, task, srcs, log, doneCalls, cfg0, fs0, calls, fsCall>>

\* mutant: the items are taken from the end of the listing
RecurseItem_LastFirst ==
  /\ AtLoop /\ Top.items # <<>>
  /\ stack' = Append(Append(Pop, [Top EXCEPT !.items = SubSeq(Top.items, 1, Len(Top.items) - 1)]),
                     Frame(Join(Top.source, Top.items[Len(Top.items)]),
                           ItemDestPath(Top.destination, Top.items[Len(Top.items)], task.flatten),
                           Top.currentDepth + 1))
  /\ UNCHANGED <<fs, pc, cfg, task, srcs, log, doneCalls, cfg0, fs0, calls, fsCall>>

\* for (const item of items): the recursive call for the next item
RecurseItem ==
  /\ AtLoop /\ Top.items # <<>>
  /\ stack' = Append(Append(Pop, [Top EXCEPT !.items = Tail(Top.items)]),
                     Frame(Join(Top.source, Head(Top.items)),
                           ItemDestPath(Top.destination, Head(Top.items), task.flatten),
                           Top.currentDepth + 1))
  /\ UNCHANGED <<fs, pc, cfg, task, srcs, log, doneCalls, cfg0, fs0, calls, fsCall>>

\* the loop over the items is over
DirReturn ==
  /\ AtLoop /\ Top.items = <<>>
  /\ Return

\* the destination of a file is a directory
FileDestIsDir ==
  /\ SourceIsFile
  /\ Stat(fs, TopDestPath) = "dir"
  /\ Fail("EXISTS_DIR")

\* fs.stat(destPath) throws something other than ENOENT
FileDestStatFails ==
  /\ SourceIsFile
  /\ Stat(fs, TopDestPath) \in OtherErrors
  /\ Fail(Stat(fs, TopDestPath))

\* case 'overwrite'
Overwrite ==
  /\ SourceIsFile
  /\ Stat(fs, TopDestPath) = "file"
  /\ task.conflictResolution = "overwrite"
  /\ FileDone(ResolveConflict(fs, Top.source, TopDestPath, "overwrite"),
              "Overwritten", TopDestPath)

\* case 'skip'
Skip ==
  /\ SourceIsFile
  /\ Stat(fs, TopDestPath) = "file"
  /\ task.conflictResolution = "skip"
  /\ FileDone(ResolveConflict(fs, Top.source, TopDestPath, "skip"),
              "Skipped", TopDestPath)

\* case 'rename'
Rename ==
  /\ SourceIsFile
  /\ Stat(fs, TopDestPath) = "file"
  /\ task.conflictResolution = "rename"
  /\ FileDone(ResolveConflict(fs, Top.source, TopDestPath, "rename"),
              "Renamed", GetUniqueFileName(fs, TopDestPath))

\* mutant: an unknown strategy is treated as 'overwrite'
UnknownStrategy_Overwrites ==
  /\ SourceIsFile
  /\ Stat(fs, TopDestPath) = "file"
  /\ task.conflictResolution \notin {"overwrite", "skip", "rename"}
  /\ FileDone(CopyFile(fs, Top.source, TopDestPath), "Overwritten", TopDestPath)

\* default: of the switch
UnknownStrategy ==
  /\ SourceIsFile
  /\ Stat(fs, TopDestPath) = "file"
  /\ task.conflictResolution \notin {"overwrite", "skip", "rename"}
  /\ Fail("UNKNOWN_STRATEGY")

\* mutant: the strategy is validated before the destination is looked at
CopyToNew_Validates ==
  /\ SourceIsFile
  /\ Stat(fs, TopDestPath) = "ENOENT"
  /\ IF task.conflictResolution \in {"overwrite", "skip", "rename"}
     THEN FileDone(CopyNew(fs, Top.source, TopDestPath), "Copied", TopDestPath)
     ELSE Fail("UNKNOWN_STRATEGY")

\* the destination does not exist
CopyToNew ==
  /\ SourceIsFile
  /\ Stat(fs, TopDestPath) = "ENOENT"
  /\ FileDone(CopyNew(fs, Top.source, TopDestPath), "Copied", TopDestPath)

(***************************************************************************)
(* The filesystems and task lists the model starts from                    *)
(***************************************************************************)
s == <<"s">>
d == <<"d">>
b == <<"b">>
c == <<"c">>
g == <<"g">>
zz == <<"z">>
ft == <<"f", ".", "t">>
f1t == <<"f", "_", "1", ".", "t">>

\* a filesystem from a set of <<path, entry>> pairs
MkFs(pairs) == [p \in {e[1] : e \in pairs} |-> (CHOOSE e \in pairs : e[1] = p)[2]]

SourceTrees ==
  { {<<<<s>>, Dir>>},
    {<<<<s>>, Dir>>, <<<<s, ft>>, File(1)>>, <<<<s, b>>, Dir>>},
    {<<<<s>>, Dir>>, <<<<s, ft>>, File(1)>>, <<<<s, b>>, Dir>>, <<<<s, b, ft>>, File(2)>>,
     <<<<s, b, c>>, Dir>>, <<<<s, b, c, g>>, File(3)>>} }

DestTrees ==
  { {},
    {<<<<d>>, Dir>>},
    {<<<<d>>, File(9)>>},
    {<<<<d>>, Dir>>, <<<<d, ft>>, File(9)>>},
    {<<<<d>>, Dir>>, <<<<d, ft>>, File(9)>>, <<<<d, f1t>>, File(8)>>},
    {<<<<d>>, Dir>>, <<<<d, ft>>, Dir>>},
    {<<<<d>>, Dir>>, <<<<d, s>>, File(9)>>},
    {<<<<d>>, Dir>>, <<<<d, s>>, Dir>>, <<<<d, s, ft>>, File(9)>>, <<<<d, s, b>>, File(9)>>} }

InitFs == {MkFs(st \cup dt) : st \in SourceTrees, dt \in DestTrees}

Policies == {"overwrite", "skip", "rename", "merge"}

\* the src of a task: one path, or a list of paths
Sources ==
  { [isArray |-> FALSE, src |-> <<<<s>>>>],
    [isArray |-> TRUE, src |-> <<<<s, zz>>, <<s, ft>>, <<s, b, ft>>>>] }

Tasks ==
  { [src |-> x.src, isArray |-> x.isArray, dest |-> <<d>>, depth |-> o.depth,
     height |-> o.height, flatten |-> o.flatten, conflictResolution |-> o.policy] :
    x \in Sources,
    o \in [depth : 0..MaxLimit, height : 0..MaxLimit, flatten : BOOLEAN, policy : Policies] }

SameOptions(t, u) ==
  /\ t.depth = u.depth /\ t.height = u.height
  /\ t.flatten = u.flatten /\ t.conflictResolution = u.conflictResolution

\* the task lists copy() is called with: up to MaxTasks tasks, each with its own
\* src, all with the same dest and the same options
Cfgs ==
  UNION { {l \in [1..n -> Tasks] : \A i \in 1..n : SameOptions(l[i], l[1])} : n \in 1..MaxTasks }

Init ==
  /\ fs \in InitFs
  /\ fs0 = fs
  /\ fsCall = fs
  /\ cfg0 = <<>>
  /\ calls = <<>>
  /\ pc = "idle"
  /\ cfg = <<>>
  /\ task = NoTask
  /\ srcs = <<>>
  /\ stack = <<>>
  /\ log = <<>>
  /\ doneCalls = 0

Next ==
  \/ \E l \in Cfgs : Copy(l)
  \/ NextTask
  \/ CallCopyItem
  \/ Done
  \/ StatSourceFails
  \/ DepthReturn
  \/ EmptyFlattenReturn
  \/ DirDestIsFile
  \/ DirDestStatFails
  \/ EnterDir
  \/ RecurseItem
  \/ DirReturn
  \/ FileDestIsDir
  \/ FileDestStatFails
  \/ Overwrite
  \/ Skip
  \/ Rename
  \/ UnknownStrategy
  \/ CopyToNew

Spec == Init /\ [][Next]_vars

(***************************************************************************)
(* copy() with the destination anywhere: beside the sources, the source    *)
(* directory itself, or a directory inside it                              *)
(***************************************************************************)
OverlapSourceTrees ==
  { {<<<<s>>, Dir>>},
    {<<<<s>>, Dir>>, <<<<s, ft>>, File(1)>>, <<<<s, b>>, Dir>>} }

OverlapDestTrees ==
  { {},
    {<<<<d>>, Dir>>, <<<<d, ft>>, Dir>>},
    {<<<<d>>, Dir>>, <<<<d, s>>, File(9)>>} }

OverlapFs == {MkFs(st \cup dt) : st \in OverlapSourceTrees, dt \in OverlapDestTrees}

OverlapDests == {<<d>>, <<s>>, <<s, b>>}

OverlapTasks ==
  { [t EXCEPT !.dest = x] : t \in Tasks, x \in OverlapDests }

\* the task lists: one task, or an unbounded overwriting task run twice
OverlapCfgs ==
  { <<t>> : t \in OverlapTasks } \cup
  { <<t, t>> : t \in {u \in OverlapTasks : /\ u.depth = 0 /\ u.height = 0
                                          /\ u.conflictResolution = "overwrite"} }

InitOverlap ==
  /\ fs \in OverlapFs
  /\ fs0 = fs
  /\ fsCall = fs
  /\ cfg0 = <<>>
  /\ calls = <<>>
  /\ pc = "idle"
  /\ cfg = <<>>
  /\ task = NoTask
  /\ srcs = <<>>
  /\ stack = <<>>
  /\ log = <<>>
  /\ doneCalls = 0

NextOverlap ==
  \/ \E l \in OverlapCfgs : Copy(l)
  \/ NextTask
  \/ CallCopyItem
  \/ Done
  \/ StatSourceFails
  \/ DepthReturn
  \/ EmptyFlattenReturn
  \/ DirDestIsFile
  \/ DirDestStatFails
  \/ EnterDir
  \/ RecurseItem
  \/ DirReturn
  \/ FileDestIsDir
  \/ FileDestStatFails
  \/ Overwrite
  \/ Skip
  \/ Rename
  \/ UnknownStrategy
  \/ CopyToNew

\* every awaited filesystem call settles and the call that awaits it goes on
SpecOverlap == InitOverlap /\ [][NextOverlap]_vars /\ WF_vars(NextOverlap)

(***************************************************************************)
(* Properties                                                              *)
(***************************************************************************)
\* the lines of the files written: Copied, Overwritten and Renamed
Written == {i \in DOMAIN log : log[i].op \in {"Copied", "Overwritten", "Renamed"}}

\* the lines of the errors reported
Errors == {i \in DOMAIN log : log[i].op \notin {"Copied", "Overwritten", "Renamed", "Skipped"}}

\* p lies strictly below the directory q
Below(p, q) == Len(p) > Len(q) /\ SubSeq(p, 1, Len(q)) = q

\* the directories of f strictly below q
DirsBelow(f, q) == {p \in DOMAIN f : Below(p, q) /\ f[p].kind = "dir"}

\* C1 (Flatten): with flatten = true every file written lies directly in the
\* destination root D under the base name of its source (or, when renamed, a
\* name made from it), and a D that held no subdirectory holds none after copy().
C1_FlattenLandsInRoot ==
  (pc # "idle" /\ task # NoTask /\ task.flatten) =>
    /\ \A i \in Written :
         /\ Dirname(log[i].dest) = task.dest
         /\ log[i].op # "Renamed" => Basename(log[i].dest) = Basename(log[i].source)
    /\ DirsBelow(fs0, task.dest) = {} => DirsBelow(fs, task.dest) = {}

\* copy() is between two copyItem calls, or past the last
Returned == pc \in {"run", "done"} /\ stack = <<>> /\ calls # <<>>

\* the path p, which lies below q, relative to q
Rel(p, q) == SubSeq(p, Len(q) + 1, Len(p))

\* T does not exist, or is a directory without entries
AbsentOrEmpty(f, T) ==
  \/ Stat(f, T) = "ENOENT"
  \/ Stat(f, T) = "dir" /\ Entries(f, T) = {}

\* T is a directory that holds the entries of S, with their contents, and no other
Mirrors(f, S, T) ==
  /\ Stat(f, T) = "dir"
  /\ \A p \in DOMAIN f :
       /\ Below(p, S) => /\ T \o Rel(p, S) \in DOMAIN f
                         /\ f[T \o Rel(p, S)] = f[p]
       /\ Below(p, T) => S \o Rel(p, T) \in DOMAIN f

\* the case of C2: a directory copied without flatten and without bounds to a
\* destination that was absent or empty when copyItem was called
MirrorCase ==
  /\ Returned
  /\ ~task.flatten /\ task.depth = 0 /\ task.height = 0
  /\ Stat(fsCall, Root.source) = "dir"
  /\ AbsentOrEmpty(fsCall, Root.destination)

FtName(n) == IF n = 0 THEN ft ELSE <<"f", "_">> \o Digits(n) \o <<".", "t">>

\* how many files were written for the destination path of line i, up to line i
Rank(i) == Cardinality({k \in Written : log[k].target = log[i].target /\ k <= i})

\* the case of C3: line i is a file written under flatten and rename for the
\* path D/f.t, and D held no name of f.t's family when copy() was called
RenameCase(i) ==
  /\ task.flatten /\ task.conflictResolution = "rename"
  /\ log[i].target = Join(task.dest, ft)
  /\ Entries(fs0, task.dest) \cap {FtName(n) : n \in 0..Len(log)} = {}

\* C3 (Rename): the k-th copy of a file to the same flattened destination under
\* 'rename' creates <base><ext> for k = 1 and <base>_(k-1)<ext> after it, and
\* every one of these files holds the content of its source.
C3_RenameSequence ==
  \A i \in Written :
    RenameCase(i) =>
      /\ log[i].dest = Join(task.dest, FtName(Rank(i) - 1))
      /\ Stat(fs, log[i].dest) = "file"
      /\ fs[log[i].dest].content = fs[log[i].source].content

C3_Witness ==
  \E i, k \in Written :
    /\ RenameCase(i) /\ RenameCase(k)
    /\ i < k /\ log[i].source = log[k].source
    /\ Rank(k) = 3
    /\ log[k].dest = <<d, <<"f", "_", "2", ".", "t">>>>

\* the top call is for a file whose destination exists as a file
FileConflict == SourceIsFile /\ Stat(fs, TopDestPath) = "file"

\* C4 (Skip): a copy under 'skip' whose destination exists as a file changes
\* nothing in the filesystem: the file keeps its content, nothing is created.
C4_SkipChangesNothing ==
  [][(FileConflict /\ task.conflictResolution = "skip") => fs' = fs]_vars

C4_Witness ==
  \E i, k \in DOMAIN log :
    /\ i < k /\ log[i].op = "Skipped" /\ log[k].op = "Skipped"
    /\ log[i].dest = log[k].dest
    /\ fs[log[i].dest].content # fs[log[i].source].content
    /\ fs = fs0

\* C5 (Overwrite): under 'overwrite' a destination path holds the content of
\* the source that was copied to it last.
C5_OverwriteLastWins ==
  (task # NoTask /\ task.conflictResolution = "overwrite") =>
    \A i \in Written :
      (\A k \in Written : log[k].dest = log[i].dest => k <= i) =>
        /\ Stat(fs, log[i].dest) = "file"
        /\ fs[log[i].dest].content = fs[log[i].source].content

C5_Witness ==
  \E i, k \in Written :
    /\ task.conflictResolution = "overwrite"
    /\ i < k /\ log[i].dest = log[k].dest
    /\ log[i].op = "Overwritten" /\ log[k].op = "Overwritten"
    /\ fs[log[i].source].content # fs[log[k].source].content
    /\ fs0[log[i].dest].content # fs[log[i].source].content
    /\ fs[log[k].dest].content = fs[log[k].source].content

\* the depth, below the source copy() named, of the directory that holds the
\* source of a line (-1 when copy() named the source itself)
SourceDirDepth(l) == Len(l.source) - Len(l.root) - 1

\* the files of f that fs0 did not hold, or held with another content
ChangedFiles == {p \in DOMAIN fs : fs[p].kind = "file" /\ (p \notin DOMAIN fs0 \/ fs0[p] # fs[p])}

\* C6 (Depth bound): with maxDepth = d > 0 no directory at depth >= d below
\* the task's source (depth 0) is listed, no copyItem call is made for an entry
\* of such a directory, and no file of such a directory reaches the destination.
C6_DepthBound ==
  (task # NoTask /\ task.depth > 0 /\ calls # <<>>) =>
    /\ \A k \in DOMAIN stack :
         /\ stack[k].at = "loop" => Len(stack[k].source) - Len(Root.source) < task.depth
         /\ Len(stack[k].source) - Len(Root.source) - 1 < task.depth
    /\ \A i \in DOMAIN log : SourceDirDepth(log[i]) < task.depth
    /\ \A p \in ChangedFiles :
         \E i \in Written : log[i].dest = p /\ SourceDirDepth(log[i]) < task.depth

C6_Witness ==
  /\ pc = "done" /\ task.depth = 1 /\ task.height = 0 /\ ~task.flatten
  /\ <<s, b, ft>> \in DOMAIN fs
  /\ \E i \in DOMAIN calls : calls[i].source = <<s>>
  /\ <<d, s, ft>> \in ChangedFiles
  /\ \A p \in DOMAIN fs : ~Below(p, <<d, s, b>>)

\* a directory has to be created where a file is, or a file copied where a
\* directory is
KindConflict ==
  \/ /\ SourceIsDir /\ ~Stopped /\ ~task.flatten
     /\ Stat(fs, Top.destination) = "file"
  \/ /\ SourceIsFile
     /\ Stat(fs, TopDestPath) = "dir"

\* the step reports one error, for the source of the top call, and changes
\* neither the filesystem nor any other call
FailsAlone ==
  /\ fs' = fs
  /\ Len(log') = Len(log) + 1
  /\ SubSeq(log', 1, Len(log)) = log
  /\ Len(log') \in {i \in DOMAIN log' : log'[i].op \notin {"Copied", "Overwritten", "Renamed", "Skipped"}}
  /\ log'[Len(log')].source = Top.source
  /\ stack' = Pop
  /\ srcs' = srcs /\ cfg' = cfg /\ pc' = pc

\* C7 (Conflict of kind): a directory that has to be placed where a file is,
\* or a file that has to be placed where a directory is, fails with one
\* reported error; the destination entry is left as it is and the call returns
\* without a call for anything below the source.
C7_KindConflictFails ==
  [][KindConflict => (FailsAlone /\ log'[Len(log')].op \in {"EXISTS_FILE", "EXISTS_DIR"})]_vars

C7_Witness ==
  /\ pc = "done"
  /\ \E i \in Errors :
       /\ log[i].op = "EXISTS_FILE"
       /\ log[i].source = <<s>> /\ <<s, ft>> \in DOMAIN fs
       /\ fs[log[i].target] = File(9)
       /\ \A k \in DOMAIN log : ~Below(log[k].source, log[i].source)
  /\ fs = fs0

\* the top call is about to fail: the source cannot be stat'ed, the kinds
\* conflict, the strategy is unknown, or the destination cannot be stat'ed
FailureCase ==
  \/ AtEntry /\ Stat(fs, Top.source) \in {"ENOENT"} \cup OtherErrors
  \/ KindConflict
  \/ FileConflict /\ task.conflictResolution \notin {"overwrite", "skip", "rename"}
  \/ SourceIsFile /\ Stat(fs, TopDestPath) \in OtherErrors
  \/ SourceIsDir /\ ~Stopped /\ ~task.flatten /\ Stat(fs, Top.destination) \in OtherErrors

\* the sources of all the tasks of a task list, in order
RECURSIVE AllSources(_)
AllSources(l) == IF l = <<>> THEN <<>> ELSE Head(l).src \o AllSources(Tail(l))

\* C8 (Isolate and continue): a failing copyItem call reports one error for
\* its source and returns; its siblings, the other sources and the other tasks
\* are left to be processed, and copy() ends with a copyItem call made for
\* every source of every task.
C8_IsolateAndContinue ==
  /\ [][FailureCase => FailsAlone]_vars
  /\ [](pc = "done" => [i \in DOMAIN calls |-> calls[i].source] = AllSources(cfg0))

C8_Witness ==
  /\ pc = "done" /\ Len(cfg0) = 2
  /\ \E i \in Errors, k \in Written, m \in Written :
       /\ i < k /\ k < m
       /\ log[i].op = "ENOENT" /\ log[i].source = <<s, zz>>
       /\ log[k].root = <<s, ft>>
       /\ log[m].root = <<s>>

\* the top call is for a file whose destination does not exist
FreshCopy == SourceIsFile /\ Stat(fs, TopDestPath) = "ENOENT"

\* C9 (Round trip on a fresh copy): a file copied to a destination path that
\* does not exist leaves the missing parent directories created and the
\* destination a file with the content of the source; nothing else changes.
C9_FreshCopyRoundTrip ==
  [][FreshCopy =>
       /\ TopDestPath \in DOMAIN fs'
       /\ fs'[TopDestPath] = File(fs[Top.source].content)
       /\ \A a \in Ancestors(TopDestPath) : a \in DOMAIN fs' /\ fs'[a].kind = "dir"
       /\ \A p \in DOMAIN fs : p \in DOMAIN fs' /\ fs'[p] = fs[p]
       /\ DOMAIN fs' \ DOMAIN fs \subseteq Ancestors(TopDestPath) \cup {TopDestPath}]_vars

C9_Witness ==
  \E i \in Written :
    /\ log[i].op = "Copied"
    /\ Dirname(log[i].dest) \notin DOMAIN fs0
    /\ Stat(fs, Dirname(log[i].dest)) = "dir"
    /\ fs[log[i].dest] = File(fs[log[i].source].content)

\* C10 (Empty directory under flatten): with flatten = true the call for a
\* directory without entries changes nothing in the filesystem and writes no
\* line.
C10_EmptyFlattenNoChange ==
  [][(SourceIsDir /\ task.flatten /\ Entries(fs, Top.source) = {}) =>
       (fs' = fs /\ log' = log /\ stack' = Pop)]_vars

C10_Witness ==
  /\ pc = "done" /\ task.flatten /\ task.depth = 0 /\ task.height = 0
  /\ Len(cfg0) = 1 /\ calls = <<[source |-> <<s>>, destination |-> <<d>>]>>
  /\ Stat(fs, <<s, b>>) = "dir" /\ Entries(fs, <<s, b>>) = {}
  /\ Written # {}
  /\ \A p \in DOMAIN fs : Len(p) > 0 /\ p[Len(p)] = b => p = <<s, b>>

\* the strategy of the task is none of 'overwrite', 'skip' and 'rename'
UnknownPolicy == task.conflictResolution \notin {"overwrite", "skip", "rename"}

\* C11 (Unknown policy): a file whose destination exists as a file, copied
\* under a conflictResolution other than overwrite, skip and rename, fails with
\* the 'Unknown conflict resolution strategy' error; the destination file is
\* left as it is and nothing is created.
C11_UnknownPolicyFails ==
  [][(FileConflict /\ UnknownPolicy) =>
       (FailsAlone /\ log'[Len(log')].op = "UNKNOWN_STRATEGY")]_vars

C11_Witness ==
  /\ pc = "done" /\ UnknownPolicy
  /\ \E i \in Errors :
       /\ log[i].op = "UNKNOWN_STRATEGY"
       /\ fs0[log[i].target] = File(9)
       /\ fs[log[i].target] = File(9)
       /\ fs[log[i].source].content # 9
  /\ fs = fs0

\* C17 (Unknown policy without a conflict): under an unrecognised
\* conflictResolution a file whose destination path does not exist is copied
\* as under a valid one: no error, the parents created, the destination a file
\* with the content of the source, and a Copied line.
C17_UnknownPolicyCopiesNew ==
  [][(FreshCopy /\ UnknownPolicy) =>
       /\ fs' = CopyFile(Mkdir(fs, Dirname(TopDestPath)), Top.source, TopDestPath)
       /\ Stat(fs', TopDestPath) = "file"
       /\ fs'[TopDestPath].content = fs[Top.source].content
       /\ log' = Append(log, [op |-> "Copied", source |-> Top.source,
                              target |-> TopDestPath, dest |-> TopDestPath,
                              root |-> Root.source])
       /\ stack' = Pop]_vars

C17_Witness ==
  /\ pc = "done" /\ UnknownPolicy
  /\ Errors = {}
  /\ \E i \in Written :
       /\ log[i].op = "Copied"
       /\ Dirname(log[i].dest) \notin DOMAIN fs0
       /\ fs[log[i].dest] = File(fs[log[i].source].content)

\* paths handed to getUniqueFileName, each with the directory, the base name
\* and the extension it is made of
Candidates ==
  { [dir |-> <<d>>, name |-> <<"f">>, ext |-> <<".", "t">>],
    [dir |-> <<d>>, name |-> <<"f", "_", "1">>, ext |-> <<".", "t">>],
    [dir |-> <<d>>, name |-> <<"s">>, ext |-> <<>>],
    [dir |-> <<d, s>>, name |-> <<"f">>, ext |-> <<".", "t">>] }

CandidatePath(cand) == cand.dir \o <<cand.name \o cand.ext>>

\* <dir>/<name>_<n><ext>, for n below 10
Numbered(cand, n) == cand.dir \o <<cand.name \o <<"_", DigitChar(n)>> \o cand.ext>>

\* C13 (Unique-Name Resolver): getUniqueFileName(p) is p when p does not
\* exist; otherwise it is <dir>/<name>_<n><ext> for the smallest n >= 1 whose
\* path does not exist, built from the base name of p; the path it returns
\* never exists.
C13_UniqueName ==
  \A cand \in Candidates :
    LET p == CandidatePath(cand)
        u == GetUniqueFileName(fs, p)
    IN  /\ ~Access(fs, u)
        /\ ~Access(fs, p) => u = p
        /\ Access(fs, p) =>
             \E n \in 1..9 :
               /\ u = Numbered(cand, n)
               /\ \A k \in 1..(n - 1) : Access(fs, Numbered(cand, k))

\* the resolver has been called on d/f.t while d/f.t and d/f_1.t existed
C13_Witness ==
  /\ \E i \in Written :
       /\ log[i].op = "Renamed"
       /\ log[i].target = <<d, ft>>
       /\ log[i].dest = <<d, <<"f", "_", "2", ".", "t">>>>
       /\ log[i].dest \notin DOMAIN fs0
  /\ GetUniqueFileName(fs, <<d, ft>>) = <<d, <<"f", "_", "3", ".", "t">>>>
  /\ GetUniqueFileName(fs, <<d, s>>) = <<d, s>>

\* the final component of a path
LastComponent(p) == p[Len(p)]

\* C14 (Destination-join rule of copy()): with flatten=false the destination
\* handed to copyItem for a source, single or element of a list, is dest joined
\* with the final component of that source, and a file source is written
\* exactly there; with flatten=true it is the dest of the task itself.
C14_DestinationJoin ==
  stack # <<>> =>
    /\ task.flatten => stack[1].destination = task.dest
    /\ ~task.flatten =>
         /\ stack[1].destination = Append(task.dest, LastComponent(stack[1].source))
         /\ (Len(stack) = 1 /\ SourceIsFile) => TopDestPath = stack[1].destination

\* a list of two file sources, both named f.t, has been copied without flatten:
\* the first was written to d/f.t and the second met it there
C14_Witness ==
  /\ pc = "done" /\ ~task.flatten /\ task.isArray
  /\ \E i, j \in DOMAIN log :
       /\ i < j
       /\ log[i].op = "Copied" /\ log[i].source = <<s, ft>> /\ log[i].dest = <<d, ft>>
       /\ log[j].op = "Overwritten" /\ log[j].source = <<s, b, ft>>
       /\ log[j].dest = <<d, ft>>
  /\ fs[<<d, ft>>] = fs[<<s, b, ft>>]

\* the smallest positive value among x and y, and 0 when both are 0
SmallestPositive(x, y) ==
  IF x = 0 THEN y ELSE IF y = 0 THEN x ELSE IF x <= y THEN x ELSE y

\* the number of directories between the source of the copyItem call of copy()
\* and the source of the innermost call
TopLevel == Len(Top.source) - Len(stack[1].source)

Preserved(f, f2) == \A p \in DOMAIN f : p \in DOMAIN f2 /\ f2[p] = f[p]

\* C18 (Rename preserves what is there): under conflictResolution = 'rename'
\* no step modifies, replaces or removes a file that exists, and the copy of a
\* file whose destination exists as a file adds exactly one file, at a path
\* that did not exist before the step.
C18_RenamePreserves ==
  [][(pc = "run" /\ task # NoTask /\ task.conflictResolution = "rename") =>
       /\ Preserved(fs, fs')
       /\ FileConflict =>
            \E p \in DOMAIN fs' :
              /\ DOMAIN fs' \ DOMAIN fs = {p}
              /\ Stat(fs, p) = "ENOENT"
              /\ fs'[p] = File(fs[Top.source].content)
              /\ Len(log') = Len(log) + 1
              /\ log'[Len(log')].op = "Renamed"
              /\ log'[Len(log')].dest = p]_vars

\* two tasks have copied onto d/f.t and d/f_1.t under 'rename': what was there
\* is still there and two files were added
C18_Witness ==
  /\ pc = "done" /\ task.conflictResolution = "rename"
  /\ Len(calls) > Len(cfg0[1].src)
  /\ {<<d, ft>>, <<d, f1t>>} \subseteq DOMAIN fs0
  /\ fs0[<<d, ft>>] = File(9) /\ fs0[<<d, f1t>>] = File(8)
  /\ Preserved(fs0, fs)
  /\ \E i, j \in Written :
       /\ i < j
       /\ log[i].op = "Renamed" /\ log[j].op = "Renamed"
       /\ log[i].target = <<d, ft>> /\ log[j].target = <<d, ft>>
       /\ log[i].dest # log[j].dest
       /\ {log[i].dest, log[j].dest} \subseteq DOMAIN fs \ DOMAIN fs0

\* the task's source directory and what lies below it
InSource(p) == p = <<s>> \/ Below(p, <<s>>)

\* C19 (Source is read-only): copy() deletes no filesystem entry and changes
\* the kind of none; it creates directories and writes files only at the task's
\* destination and below it, so with the destination disjoint from the sources
\* every source file keeps its content and every source directory its listing,
\* under every policy and on failed branches too.
C19_SourceReadOnly ==
  /\ \A p \in DOMAIN fs0 : p \in DOMAIN fs /\ fs[p].kind = fs0[p].kind
  /\ \A p \in DOMAIN fs :
       (p \notin DOMAIN fs0 \/ fs[p] # fs0[p]) => (p = <<d>> \/ Below(p, <<d>>))
  /\ \A p \in DOMAIN fs0 : InSource(p) => fs[p] = fs0[p]
  /\ \A p \in DOMAIN fs0 :
       (InSource(p) /\ fs0[p].kind = "dir") => Entries(fs, p) = Entries(fs0, p)

\* a finished copy that wrote files, overwrote one and had a failed branch
C19_Witness ==
  /\ pc = "done"
  /\ Errors # {}
  /\ \E i \in Written :
       /\ log[i].op = "Overwritten"
       /\ log[i].dest \in DOMAIN fs0
       /\ fs0[log[i].dest] # fs[log[i].dest]
  /\ \E i \in Written : log[i].op = "Copied"
  /\ \A p \in DOMAIN fs0 : InSource(p) => fs[p] = fs0[p]
  /\ \E p \in DOMAIN fs0 : InSource(p) /\ fs0[p].kind = "file"

\* the sources of the copyItem calls copy() has made, in the order of the calls
CallSources == [i \in DOMAIN calls |-> calls[i].source]

\* the calls in progress form one branch: every call but the innermost is a
\* directory waiting in its loop for the call of one of its entries
OneBranch ==
  /\ stack # <<>> => stack[1].source = Root.source
  /\ \A k \in 1..(Len(stack) - 1) :
       /\ stack[k].at = "loop"
       /\ Dirname(stack[k + 1].source) = stack[k].source

\* a step is taken by the innermost call, or by copy() when no call is in
\* progress; a call is made for the first item not yet handled, and a directory
\* returns when no item is left
InnermostActs ==
  /\ (fs' # fs \/ log' # log) =>
       /\ stack # <<>>
       /\ \/ stack' = Pop
          \/ Len(stack') = Len(stack) /\ SubSeq(stack', 1, Len(stack) - 1) = Pop
       /\ log' # log => (log' = Append(log, log'[Len(log')]) /\ log'[Len(log')].source = Top.source)
  /\ Len(stack') > Len(stack) =>
       /\ fs' = fs /\ log' = log
       /\ Len(stack') = Len(stack) + 1
       /\ \/ /\ stack = <<>>
             /\ stack'[1].source = AllSources(cfg0)[Len(calls) + 1]
             /\ stack'[1].at = "entry"
          \/ /\ AtLoop /\ Top.items # <<>>
             /\ stack'[Len(stack')].source = Join(Top.source, Head(Top.items))
             /\ stack'[Len(stack')].at = "entry"
             /\ stack'[Len(stack)] = [Top EXCEPT !.items = Tail(Top.items)]
             /\ SubSeq(stack', 1, Len(stack) - 1) = Pop
  /\ Len(stack') < Len(stack) =>
       /\ stack' = Pop
       /\ Top.at = "loop" => Top.items = <<>>
  /\ (Len(stack') = Len(stack) /\ stack' # stack) =>
       /\ AtEntry /\ stack'[Len(stack)].at = "loop"
       /\ SubSeq(stack', 1, Len(stack) - 1) = Pop
       /\ \A n \in Entries(fs, Top.source) :
            Cardinality({i \in DOMAIN stack'[Len(stack)].items : stack'[Len(stack)].items[i] = n}) = 1
       /\ \A i \in DOMAIN stack'[Len(stack)].items :
            stack'[Len(stack)].items[i] \in Entries(fs, Top.source)

C12_Terminates ==
  /\ (pc = "run") ~> (pc = "done")
  /\ [](doneCalls <= 1)
  /\ [][doneCalls' # doneCalls =>
          /\ doneCalls' = doneCalls + 1
          /\ stack = <<>> /\ srcs = <<>> /\ cfg = <<>>
          /\ pc' = "done" /\ fs' = fs]_vars
  /\ [][pc = "done" => (fs' = fs /\ doneCalls' = doneCalls)]_vars

\* copy() has ended and called done once after copying s into s/b, where it
\* went down the directories it had created until the path was too long
C12_Witness ==
  /\ pc = "done" /\ doneCalls = 1
  /\ task.dest = <<s, b>> /\ ~task.flatten
  /\ task.depth = 0 /\ task.height = 0
  /\ \E i \in Errors : log[i].op = "ENAMETOOLONG"
  /\ \E i \in Written : log[i].source \notin DOMAIN fs0

====
